---- MODULE Spec2Model ----
(***************************************************************************)
(* GoodNews.news: the news curation and digest scheduling pipeline.        *)
(*                                                                         *)
(* Two entry points run the same algorithm from two copies of the code:    *)
(*   "timer"   - backend/server.js, the node-cron job (every 15 minutes)   *)
(*   "handler" - api/cron/daily-digest.js, the externally triggered job    *)
(* Strings are sequences of one-character strings, so that toLowerCase and *)
(* String.prototype.includes are computed on characters.                   *)
(***************************************************************************)
EXTENDS Integers, Sequences, FiniteSets, TLC

VARIABLES
  subscribers,   \* the rows of the subscribers table, in store-read order
  ep,            \* the entry point whose invocation is in progress, or "none"
  pc,            \* where that invocation is suspended
  now,           \* `now` of the invocation: minutes since the epoch's midnight UTC
  batch,         \* the rows the invocation loops over
  i,             \* position in batch of the subscriber being processed
  k,             \* position in interests.slice(0, 3) of fetchGoodNews' loop
  newsItems,     \* fetchGoodNews' newsItems for the subscriber being processed
  dueLog,        \* emails the invocation evaluated as due
  providerCalls, \* the provider requests the invocation issued, in order
  sendCalls,     \* the resend.emails.send calls the invocation issued, in order
  digests,       \* the digest fetchGoodNews returned for each processed subscriber
  status,        \* the handler's HTTP status (0: none yet)
  sentCount,     \* the handler's sentCount
  storeRead,     \* outcome of the invocation's store read: "none", "ok", "error"
  tick,          \* cadence: quarter-hour boundaries passed so far
  hits,          \* cadence: <<email, local day>> pairs evaluated as due
  dupes,         \* cadence: the pairs evaluated as due more than once
  earlyDrift,    \* cadence: some invocation read the clock before its boundary
  authorization, \* req.headers.authorization of the handler's request in progress
  sentOn,        \* history: <<email, local day, entry point>> of the digests sent
  sentTwice,     \* history: <<email, local day>> of the digests sent more than once
  reqs           \* the signup requests: input, position, store calls, mails, answer

cadence == <<tick, hits, dupes, earlyDrift>>

history == <<sentOn, sentTwice>>

vars == <<subscribers, ep, pc, now, batch, i, k, newsItems, dueLog,
          providerCalls, sendCalls, digests, status, sentCount, storeRead,
          tick, hits, dupes, earlyDrift, authorization, sentOn, sentTwice, reqs>>

----
\* Bounds of the model.

\* Longest provider reply (the code asks for pageSize=20).
MaxArticles == 3
\* Most rows of the subscribers table.
MaxSubscribers == 2
\* Days the cadence specification runs over.
MaxDays == 2
\* Most minutes an invocation reads the clock before its quarter-hour boundary.
MaxEarly == 1

----
\* Constants of the program.

\* interests.slice(0, 3)
maxInterests == 3
\* goodArticles.slice(0, 2)
maxPerInterest == 2
\* getHours() === 7
windowHour == 7
\* getMinutes() >= 30
windowStartMinute == 30
\* getMinutes() < 45
windowEndMinute == 45
\* '*/15 * * * *'
cronEveryMinutes == 15
\* Minutes of a day of wall-clock time.
minutesPerDay == 1440

----
\* Strings.

\* Keywords that indicate genuinely positive news (both copies hold the same list).
positiveKeywords ==
  <<
    <<"b","r","e","a","k","t","h","r","o","u","g","h">>,
    <<"s","u","c","c","e","s","s">>,
    <<"a","c","h","i","e","v","e">>,
    <<"d","i","s","c","o","v","e","r">>,
    <<"i","n","n","o","v","a","t","e">>,
    <<"c","u","r","e">>,
    <<"s","a","v","e","s">>,
    <<"h","e","l","p","e","d">>,
    <<"d","o","n","a","t","e">>,
    <<"v","o","l","u","n","t","e","e","r">>,
    <<"m","i","l","e","s","t","o","n","e">>,
    <<"r","e","n","e","w","a","b","l","e">>,
    <<"s","u","s","t","a","i","n","a","b","l","e">>,
    <<"r","e","c","o","v","e","r","y">>,
    <<"c","e","l","e","b","r","a","t","e","s">>,
    <<"a","w","a","r","d">>,
    <<"r","e","s","e","a","r","c","h"," ","f","i","n","d","s">>,
    <<"s","c","i","e","n","t","i","s","t","s"," ","d","i","s","c","o","v","e","r">>,
    <<"n","e","w"," ","s","t","u","d","y">>,
    <<"p","r","o","g","r","e","s","s">>
  >>

\* Spam/negative keywords to exclude (both copies hold the same list).
excludeKeywords ==
  <<
    <<"c","a","s","i","n","o">>,
    <<"g","a","m","b","l","i","n","g">>,
    <<"b","e","t">>,
    <<"p","o","k","e","r">>,
    <<"s","l","o","t","s">>,
    <<"f","r","e","e"," ","s","p","i","n","s">>,
    <<"d","e","a","t","h">>,
    <<"d","e","a","d">>,
    <<"k","i","l","l">>,
    <<"m","u","r","d","e","r">>,
    <<"c","r","a","s","h">>,
    <<"d","i","s","a","s","t","e","r">>,
    <<"t","r","a","g","e","d","y">>,
    <<"w","a","r">>,
    <<"a","t","t","a","c","k">>,
    <<"t","e","r","r","o","r">>,
    <<"b","o","m","b">>,
    <<"s","h","o","o","t","i","n","g">>,
    <<"v","i","o","l","e","n","c","e">>,
    <<"s","c","a","n","d","a","l">>,
    <<"f","r","a","u","d">>,
    <<"s","c","a","m">>,
    <<"a","c","c","u","s","e","d">>,
    <<"a","r","r","e","s","t">>,
    <<"p","r","i","s","o","n">>,
    <<"c","r","y","p","t","o">>,
    <<"b","i","t","c","o","i","n">>,
    <<"n","f","t">>,
    <<"f","o","r","e","x">>,
    <<"t","r","a","d","i","n","g"," ","s","i","g","n","a","l","s">>,
    <<"w","e","i","g","h","t"," ","l","o","s","s">>,
    <<"d","i","e","t"," ","p","i","l","l">>,
    <<"s","u","p","p","l","e","m","e","n","t">>,
    <<"c","b","d">>,
    <<"t","h","c">>,
    <<"c","l","i","c","k"," ","h","e","r","e">>,
    <<"l","i","m","i","t","e","d"," ","t","i","m","e">>,
    <<"a","c","t"," ","n","o","w">>,
    <<"b","u","y"," ","n","o","w">>,
    <<"d","i","s","c","o","u","n","t">>,
    <<"s","p","o","n","s","o","r","e","d">>,
    <<"a","d","v","e","r","t","i","s","e","m","e","n","t">>,
    <<"p","r","o","m","o","t","e","d">>,
    <<"p","a","r","t","n","e","r"," ","c","o","n","t","e","n","t">>,
    <<"g","l","o","b","e","n","e","w","s","w","i","r","e">>,
    <<"p","r","n","e","w","s","w","i","r","e">>,
    <<"b","u","s","i","n","e","s","s","w","i","r","e">>,
    <<"a","c","c","e","s","s","w","i","r","e">>
  >>

\* Trusted news sources (server.js only: the trigger handler has no such list).
trustedSources ==
  <<
    <<"b","b","c">>,
    <<"n","p","r">>,
    <<"r","e","u","t","e","r","s">>,
    <<"a","s","s","o","c","i","a","t","e","d"," ","p","r","e","s","s">>,
    <<"t","h","e"," ","g","u","a","r","d","i","a","n">>,
    <<"n","e","w"," ","y","o","r","k"," ","t","i","m","e","s">>,
    <<"w","a","s","h","i","n","g","t","o","n"," ","p","o","s","t">>,
    <<"w","i","r","e","d">>,
    <<"a","r","s"," ","t","e","c","h","n","i","c","a">>,
    <<"t","h","e"," ","v","e","r","g","e">>,
    <<"t","e","c","h","c","r","u","n","c","h">>,
    <<"n","a","t","u","r","e">>,
    <<"s","c","i","e","n","c","e">>,
    <<"n","a","t","i","o","n","a","l"," ","g","e","o","g","r","a","p","h","i","c">>,
    <<"s","m","i","t","h","s","o","n","i","a","n">>,
    <<"c","n","n">>,
    <<"a","b","c"," ","n","e","w","s">>,
    <<"c","b","s"," ","n","e","w","s">>,
    <<"n","b","c"," ","n","e","w","s">>,
    <<"t","i","m","e">>,
    <<"f","o","r","b","e","s">>,
    <<"b","l","o","o","m","b","e","r","g">>,
    <<"e","s","p","n">>,
    <<"s","p","o","r","t","s"," ","i","l","l","u","s","t","r","a","t","e","d">>
  >>

\* T: title 'Scientists discover breakthrough cure', description 'research finds new treatment', source 'Reuters'
ArtTrusted ==
  [url |-> "t",
   title |-> <<"S","c","i","e","n","t","i","s","t","s"," ","d","i","s","c","o","v","e","r"," ","b","r","e","a","k","t","h","r","o","u","g","h"," ","c","u","r","e">>,
   description |-> <<"r","e","s","e","a","r","c","h"," ","f","i","n","d","s"," ","n","e","w"," ","t","r","e","a","t","m","e","n","t">>,
   source |-> [isObject |-> TRUE, name |-> <<"R","e","u","t","e","r","s">>]]

\* U: title 'Town volunteers donate books', description 'A local success', source 'Daily Bugle'
ArtPlain ==
  [url |-> "u",
   title |-> <<"T","o","w","n"," ","v","o","l","u","n","t","e","e","r","s"," ","d","o","n","a","t","e"," ","b","o","o","k","s">>,
   description |-> <<"A"," ","l","o","c","a","l"," ","s","u","c","c","e","s","s">>,
   source |-> [isObject |-> TRUE, name |-> <<"D","a","i","l","y"," ","B","u","g","l","e">>]]

\* X: title 'Crypto breakthrough', description 'New milestone', source 'Wired'
ArtCrypto ==
  [url |-> "x",
   title |-> <<"C","r","y","p","t","o"," ","b","r","e","a","k","t","h","r","o","u","g","h">>,
   description |-> <<"N","e","w"," ","m","i","l","e","s","t","o","n","e">>,
   source |-> [isObject |-> TRUE, name |-> <<"W","i","r","e","d">>]]

\* N: title '', description 'Breakthrough cure', source 'NPR'
ArtNoTitle ==
  [url |-> "n",
   title |-> <<>>,
   description |-> <<"B","r","e","a","k","t","h","r","o","u","g","h"," ","c","u","r","e">>,
   source |-> [isObject |-> TRUE, name |-> <<"N","P","R">>]]

\* D: title 'Breakthrough cure', description '', source 'NPR'
ArtNoDescription ==
  [url |-> "d",
   title |-> <<"B","r","e","a","k","t","h","r","o","u","g","h"," ","c","u","r","e">>,
   description |-> <<>>,
   source |-> [isObject |-> TRUE, name |-> <<"N","P","R">>]]

\* S: title 'Firm celebrates milestone', description 'Growth success', source 'PRNewswire'
ArtWire ==
  [url |-> "s",
   title |-> <<"F","i","r","m"," ","c","e","l","e","b","r","a","t","e","s"," ","m","i","l","e","s","t","o","n","e">>,
   description |-> <<"G","r","o","w","t","h"," ","s","u","c","c","e","s","s">>,
   source |-> [isObject |-> TRUE, name |-> <<"P","R","N","e","w","s","w","i","r","e">>]]

\* P: title 'Cloudy skies', description 'Rain later', source 'NPR'
ArtNeutral ==
  [url |-> "p",
   title |-> <<"C","l","o","u","d","y"," ","s","k","i","e","s">>,
   description |-> <<"R","a","i","n"," ","l","a","t","e","r">>,
   source |-> [isObject |-> TRUE, name |-> <<"N","P","R">>]]

\* A: title 'Teacher wins award', description 'School honors work', source 'BBC News'
ArtAward ==
  [url |-> "a",
   title |-> <<"T","e","a","c","h","e","r"," ","w","i","n","s"," ","a","w","a","r","d">>,
   description |-> <<"S","c","h","o","o","l"," ","h","o","n","o","r","s"," ","w","o","r","k">>,
   source |-> [isObject |-> TRUE, name |-> <<"B","B","C"," ","N","e","w","s">>]]

\* Z: title 'Solar milestone', description 'Renewable progress', source None
ArtNoSource ==
  [url |-> "z",
   title |-> <<"S","o","l","a","r"," ","m","i","l","e","s","t","o","n","e">>,
   description |-> <<"R","e","n","e","w","a","b","l","e"," ","p","r","o","g","r","e","s","s">>,
   source |-> [isObject |-> FALSE, name |-> <<>>]]

toLowerCaseChar(c) ==
  CASE c = "A" -> "a"
    [] c = "B" -> "b"
    [] c = "C" -> "c"
    [] c = "D" -> "d"
    [] c = "E" -> "e"
    [] c = "F" -> "f"
    [] c = "G" -> "g"
    [] c = "H" -> "h"
    [] c = "I" -> "i"
    [] c = "J" -> "j"
    [] c = "K" -> "k"
    [] c = "L" -> "l"
    [] c = "M" -> "m"
    [] c = "N" -> "n"
    [] c = "O" -> "o"
    [] c = "P" -> "p"
    [] c = "Q" -> "q"
    [] c = "R" -> "r"
    [] c = "S" -> "s"
    [] c = "T" -> "t"
    [] c = "U" -> "u"
    [] c = "V" -> "v"
    [] c = "W" -> "w"
    [] c = "X" -> "x"
    [] c = "Y" -> "y"
    [] c = "Z" -> "z"
    [] OTHER -> c


\* String.prototype.toLowerCase
toLowerCase(s) == [n \in 1..Len(s) |-> toLowerCaseChar(s[n])]

\* String.prototype.includes
includes(s, kw) ==
  \E n \in 1..(Len(s) - Len(kw) + 1) : SubSeq(s, n, n + Len(kw) - 1) = kw

Range(s) == {s[n] : n \in 1..Len(s)}

----
\* The classifier: the filter and sort inside fetchGoodNews.

\* article.source?.name || ''
sourceName(article) ==
  IF article.source.isObject THEN article.source.name ELSE <<>>

\* `${article.title} ${article.description}`.toLowerCase()
articleText(article) ==
  toLowerCase(article.title \o <<" ">> \o article.description)

\* positiveKeywords.some(kw => text.includes(kw))
hasPositive(article) ==
  \E n \in 1..Len(positiveKeywords) :
    includes(articleText(article), positiveKeywords[n])

\* excludeKeywords.some(kw => text.includes(kw) || source.includes(kw))
hasExcluded(article) ==
  \E n \in 1..Len(excludeKeywords) :
    \/ includes(articleText(article), excludeKeywords[n])
    \/ includes(toLowerCase(sourceName(article)), excludeKeywords[n])

\* trustedSources.some(s => source.includes(s))
isTrusted(article) ==
  \E n \in 1..Len(trustedSources) :
    includes(toLowerCase(sourceName(article)), trustedSources[n])

\* The filter without its exclusion test.
isGoodArticleNoExclusion(article) ==
  IF article.title = <<>> \/ article.description = <<>>
  THEN FALSE
  ELSE hasPositive(article)

\* The callback of data.articles.filter
isGoodArticle(article) ==
  IF article.title = <<>> \/ article.description = <<>>
  THEN FALSE
  ELSE hasPositive(article) /\ ~hasExcluded(article)

\* The articles the provider's replies are made of.
ArticlePool ==
  {ArtTrusted, ArtPlain, ArtCrypto, ArtNoTitle, ArtNoDescription, ArtWire,
   ArtNeutral, ArtAward, ArtNoSource}

\* The filter's and the sort's verdict on each article of the pool.
goodTable ==
  [a \in ArticlePool |-> [good |-> isGoodArticle(a), trusted |-> isTrusted(a)]]

\* The stable sort of server.js (Array.prototype.sort with bTrusted - aTrusted):
\* trusted articles first, each group in its input order.
sortTrustedFirst(articles) ==
  SelectSeq(articles, LAMBDA a : goodTable[a].trusted)
    \o SelectSeq(articles, LAMBDA a : ~goodTable[a].trusted)

\* goodArticles of one reply: the timer's copy filters and sorts, the trigger
\* handler's copy only filters.
goodArticles(copy, articles) ==
  LET filtered == SelectSeq(articles, LAMBDA a : goodTable[a].good)
  IN  IF copy = "timer" THEN sortTrustedFirst(filtered) ELSE filtered

\* Array.prototype.slice(0, n)
slice0(s, n) == SubSeq(s, 1, IF Len(s) < n THEN Len(s) ELSE n)

\* Every interest consulted, with no slice.
consultedInterestsAll(interests) == interests

\* interests.slice(0, 3): the interests fetchGoodNews consults.
consultedInterests(interests) == slice0(interests, maxInterests)

\* goodArticles.slice(0, 2)
topArticles(good) == slice0(good, maxPerInterest)

\* The object pushed for one article.
digestItem(article, interest) ==
  [title |-> article.title,
   description |-> article.description,
   url |-> article.url,
   source |-> article.source.name,
   category |-> interest]

\* categoryMap, keyed by interest.toLowerCase()
categoryMap ==
  (<<"t","e","c","h">> :> "technology")
  @@ (<<"t","e","c","h","n","o","l","o","g","y">> :> "technology")
  @@ (<<"s","c","i","e","n","c","e">> :> "science")
  @@ (<<"h","e","a","l","t","h">> :> "health")
  @@ (<<"s","p","o","r","t","s">> :> "sports")
  @@ (<<"b","u","s","i","n","e","s","s">> :> "business")
  @@ (<<"e","n","t","e","r","t","a","i","n","m","e","n","t">> :> "entertainment")
  @@ (<<"a","r","t","s">> :> "entertainment")

\* The request sent for one interest: top-headlines of the mapped category, or a
\* free-text search for the tag.
providerRequest(interest) ==
  IF toLowerCase(interest) \in DOMAIN categoryMap
  THEN [endpoint |-> "top-headlines", q |-> <<>>,
        category |-> categoryMap[toLowerCase(interest)]]
  ELSE [endpoint |-> "everything", q |-> interest, category |-> ""]

\* catchSite with no try/catch around the send in the handler's loop (the
\* exception reaches the outer catch) nor in sendDailyDigest.
catchSiteSendEscapes(copy, origin) ==
  CASE origin \in {"provider", "map"} -> "interest"
    [] origin = "send" -> IF copy = "timer" THEN "none" ELSE "cycle"
    [] origin = "fetchGoodNews" -> "subscriber"
    [] origin = "timezone" -> IF copy = "timer" THEN "filter" ELSE "subscriber"
    [] origin = "storeRead" -> IF copy = "timer" THEN "none" ELSE "cycle"

\* catchSite with no try/catch inside fetchGoodNews' loop.
catchSiteFetchEscapes(copy, origin) ==
  CASE origin \in {"provider", "map", "send", "fetchGoodNews"} -> "subscriber"
    [] origin = "timezone" -> IF copy = "timer" THEN "filter" ELSE "subscriber"
    [] origin = "storeRead" -> IF copy = "timer" THEN "none" ELSE "cycle"

\* catchSite with no try/catch around the time zone projection.
catchSiteTimezoneEscapes(copy, origin) ==
  CASE origin \in {"provider", "map"} -> "interest"
    [] origin \in {"send", "fetchGoodNews"} -> "subscriber"
    [] origin = "timezone" -> IF copy = "timer" THEN "none" ELSE "cycle"
    [] origin = "storeRead" -> IF copy = "timer" THEN "none" ELSE "cycle"

\* Where an exception raised at `origin` inside entry point `copy` is caught:
\*   "interest"   the try/catch inside fetchGoodNews' loop
\*   "filter"     the try/catch inside getSubscribersForCurrentHour's filter
\*   "subscriber" sendDailyDigest's try/catch, or the handler's inner try/catch
\*   "cycle"      the handler's outer try/catch
\*   "none"       nowhere: the rejection leaves the cron callback
catchSite(copy, origin) ==
  CASE origin \in {"provider", "map"} -> "interest"
    [] origin \in {"send", "fetchGoodNews"} -> "subscriber"
    [] origin = "timezone" -> IF copy = "timer" THEN "filter" ELSE "subscriber"
    [] origin = "storeRead" -> IF copy = "timer" THEN "none" ELSE "cycle"

\* The store error thrown by both copies.
onStoreErrorThrow(copy) == "throw"

\* What each copy does with the error the store read returns: the timer
\* returns [], the handler throws it.
onStoreError(copy) == IF copy = "timer" THEN "returnEmpty" ELSE "throw"

\* The empty digest sent all the same.
digestIsEmptyNever(items) == FALSE

\* news.length === 0: the digest is not sent.
digestIsEmpty(items) == Len(items) = 0

\* One pass of fetchGoodNews' loop body for `interest`, given the provider's
\* reply: the new newsItems, how the pass ended, and whether an exception
\* leaves fetchGoodNews.
fetchInterest(copy, items, interest, reply) ==
  IF reply.kind = "throws"
  THEN [items |-> items, outcome |-> "throws",
        escapes |-> catchSite(copy, "provider") # "interest"]
  ELSE IF reply.kind = "noArticles"
  THEN [items |-> items, outcome |-> "noArticles", escapes |-> FALSE]
  ELSE LET top == topArticles(goodArticles(copy, reply.articles))
       IN  IF \E n \in 1..Len(top) : ~top[n].source.isObject
           THEN [items |-> items, outcome |-> "mapThrows",
                 escapes |-> catchSite(copy, "map") # "interest"]
           ELSE [items |-> items \o [n \in 1..Len(top) |-> digestItem(top[n], interest)],
                 outcome |-> "articles", escapes |-> FALSE]

----
\* Time.

\* The IANA zones of the model and their UTC offsets in minutes (the runtime's
\* time zone database); any other string makes toLocaleString throw RangeError.
timeZoneOffset ==
  ("UTC" :> 0) @@ ("Asia/Kolkata" :> 330) @@ ("Asia/Kathmandu" :> 345)
  @@ ("America/New_York" :> (0 - 300))

timeZoneThrows(tz) == tz \notin DOMAIN timeZoneOffset

\* The subscriber's calendar day at instant t.
localDay(t, tz) == (t + timeZoneOffset[tz]) \div minutesPerDay

\* now.toLocaleString('en-US', { timeZone }): the time of day in 12-hour form
\* (the date part plays no role in getHours/getMinutes).
toLocaleString(t, tz) ==
  LET local == (t + timeZoneOffset[tz]) % minutesPerDay
      h24 == local \div 60
  IN  [hour12 |-> IF h24 % 12 = 0 THEN 12 ELSE h24 % 12,
       minute |-> local % 60,
       dayPeriod |-> IF h24 < 12 THEN "AM" ELSE "PM"]

\* The parse that drops AM/PM.
parseDateNoPeriod(str) ==
  [hours |-> str.hour12 % 12, minutes |-> str.minute]

\* new Date(string): getHours() and getMinutes() of the parsed 12-hour time.
parseDate(str) ==
  [hours |-> (str.hour12 % 12) + (IF str.dayPeriod = "PM" THEN 12 ELSE 0),
   minutes |-> str.minute]

subscriberTime(t, tz) == parseDate(toLocaleString(t, tz))

\* The window closed at its end: minute <= 45.
inWindowInclusive(st) ==
  st.hours = windowHour /\ st.minutes >= windowStartMinute
    /\ st.minutes <= windowEndMinute

\* hour === 7 && minute >= 30 && minute < 45
inWindow(st) ==
  st.hours = windowHour /\ st.minutes >= windowStartMinute
    /\ st.minutes < windowEndMinute

\* A digest was sent to this email on this local day, by either entry point.
alreadySent(email, day) == \E e \in sentOn : e[1] = email /\ e[2] = day

\* The handler's test with a sent-today marker consulted.
handlerDueUnlessSent(sub, t) ==
  /\ inWindow(subscriberTime(t, sub.timezone))
  /\ ~alreadySent(sub.email, localDay(t, sub.timezone))

\* The filter callback of getSubscribersForCurrentHour.
timerKeeps(sub, t) ==
  IF timeZoneThrows(sub.timezone) THEN FALSE
  ELSE inWindow(subscriberTime(t, sub.timezone))

\* The handler's test of one subscriber, once toLocaleString has not thrown.
handlerDue(sub, t) == inWindow(subscriberTime(t, sub.timezone))

\* getSubscribersForCurrentHour, after a successful read.
getSubscribersForCurrentHour(rows, t) ==
  SelectSeq(rows, LAMBDA sub : timerKeeps(sub, t))

----
\* Inputs of the model.

tech == <<"t","e","c","h">>
space == <<"s","p","a","c","e">>
health == <<"h","e","a","l","t","h">>
arts == <<"a","r","t","s">>

\* Rows as the signup handlers write them: one to ten sanitized interests.
SampleSubscribers ==
  { [email |-> "ann@x.io", interests |-> <<tech, space, health, arts>>,
     timezone |-> "UTC"],
    [email |-> "bob@x.io", interests |-> <<space, tech>>, timezone |-> "UTC"],
    [email |-> "cyd@x.io", interests |-> <<health>>, timezone |-> "Mars/Phobos"],
    [email |-> "dee@x.io", interests |-> <<arts>>, timezone |-> "Asia/Kolkata"] }

\* Rows of two more zones, west of UTC and at a quarter-hour offset, for the
\* cadence.
ZoneSubscribers ==
  { [email |-> "eli@x.io", interests |-> <<tech>>, timezone |-> "America/New_York"],
    [email |-> "fay@x.io", interests |-> <<space>>, timezone |-> "Asia/Kathmandu"] }

SeqsUpTo(S, n) == UNION {[1..m -> S] : m \in 0..n}

\* Tables of at most MaxSubscribers rows; email is UNIQUE in schema.sql.
Tables ==
  {t \in SeqsUpTo(SampleSubscribers, MaxSubscribers) :
     \A p, q \in 1..Len(t) : p # q => t[p].email # t[q].email}

\* Instants a cycle may read as `now` (minutes after midnight UTC): around the
\* window in UTC, the same wall-clock time in the evening, and around the
\* window in Asia/Kolkata.
Instants == {395, 449, 450, 451, 464, 465, 466, 515, 1171, 119, 120, 134, 135}

\* Every reply the provider can give with at most n articles: a failed call or
\* unparsable body, a body without articles, or a list of articles.
AllReplies(n) ==
  {[kind |-> "throws", articles |-> <<>>], [kind |-> "noArticles", articles |-> <<>>]}
    \cup {[kind |-> "articles", articles |-> s] : s \in SeqsUpTo(ArticlePool, n)}

\* The replies the scheduling specification draws from.
SchedulerReplies ==
  {[kind |-> "throws", articles |-> <<>>],
   [kind |-> "noArticles", articles |-> <<>>],
   [kind |-> "articles", articles |-> <<ArtCrypto, ArtNoTitle>>],
   [kind |-> "articles", articles |-> <<ArtNoSource>>],
   [kind |-> "articles", articles |-> <<ArtPlain, ArtTrusted, ArtPlain>>]}

SendOutcomes == {"ok", "error", "throws"}

----
\* The scheduling cycle.

Emails(rows) == {rows[n].email : n \in 1..Len(rows)}

\* Raise with the subscriber whose processing threw taken again.
RaiseRetry(site) ==
  IF site = "subscriber"
  THEN pc' = "loop" /\ i' = i /\ status' = status
  ELSE IF site = "cycle"
  THEN pc' = "idle" /\ i' = i /\ status' = 500
  ELSE pc' = "crashed" /\ i' = i /\ status' = status

\* An exception caught at `site` while batch[i] is processed.
Raise(site) ==
  IF site = "subscriber"
  THEN pc' = "loop" /\ i' = i + 1 /\ status' = status
  ELSE IF site = "cycle"
  THEN pc' = "idle" /\ i' = i /\ status' = 500
  ELSE pc' = "crashed" /\ i' = i /\ status' = status

ResetCycle ==
  /\ batch' = <<>>
  /\ i' = 1
  /\ k' = 1
  /\ newsItems' = <<>>
  /\ dueLog' = {}
  /\ providerCalls' = <<>>
  /\ sendCalls' = <<>>
  /\ digests' = <<>>
  /\ sentCount' = 0
  /\ storeRead' = "none"

\* process.env.CRON_SECRET, configured.
cronSecret == "s3cret"

\* req.headers.authorization: undefined when the request carries no such header.
noHeader == [present |-> FALSE, value |-> ""]

Headers ==
  {noHeader} \cup
  {[present |-> TRUE, value |-> v] :
     v \in {"Bearer s3cret", "Bearer wrong", "s3cret", "bearer s3cret",
            "Bearer s3cret ", "Bearer ", ""}}

isAuthorizedAnyBearer(header) ==
  header.present /\ header.value \in {"Bearer s3cret", "Bearer wrong"}

\* Negation of the test that answers 401:
\* req.headers.authorization !== `Bearer ${process.env.CRON_SECRET}`
isAuthorized(header) ==
  header.present /\ header.value = "Bearer " \o cronSecret

\* cron.schedule('*/15 * * * *', ...): the job starts and awaits the store read.
TimerFire ==
  /\ pc = "idle"
  /\ ep' = "timer"
  /\ pc' = "read"
  /\ status' = 0
  /\ authorization' = noHeader
  /\ ResetCycle
  /\ UNCHANGED <<subscribers, now, cadence, history, reqs>>

\* handler(req, res): 401 unless the Authorization header carries the secret.
HandlerRequest ==
  /\ pc = "idle"
  /\ ep' = "handler"
  /\ ResetCycle
  /\ \E header \in Headers :
       /\ authorization' = header
       /\ IF isAuthorized(header) THEN pc' = "read" /\ status' = 0
          ELSE pc' = "idle" /\ status' = 401
  /\ UNCHANGED <<subscribers, now, cadence, history, reqs>>

\* The store read returns; `now` is read right after it, at one of `instants`.
StoreReadAt(instants) ==
  /\ pc = "read"
  /\ \E outcome \in {"ok", "error"}, t \in instants :
       /\ storeRead' = outcome
       /\ IF outcome = "error"
          THEN /\ now' = now
               /\ dueLog' = dueLog
               /\ batch' = <<>>
               /\ IF onStoreError(ep) = "returnEmpty"
                  THEN pc' = "loop" /\ i' = 1 /\ status' = status
                  ELSE Raise(catchSite(ep, "storeRead"))
          ELSE /\ now' = t
               /\ IF ep = "timer"
                  THEN IF /\ catchSite(ep, "timezone") # "filter"
                          /\ \E n \in 1..Len(subscribers) :
                               timeZoneThrows(subscribers[n].timezone)
                       THEN /\ batch' = <<>>
                            /\ dueLog' = dueLog
                            /\ Raise("none")
                       ELSE /\ batch' = getSubscribersForCurrentHour(subscribers, t)
                            /\ dueLog' = Emails(batch')
                            /\ pc' = "loop" /\ i' = 1 /\ status' = status
                  ELSE /\ batch' = subscribers
                       /\ dueLog' = dueLog
                       /\ pc' = "loop" /\ i' = 1 /\ status' = status
  /\ UNCHANGED <<subscribers, ep, k, newsItems, providerCalls, sendCalls,
                 digests, sentCount, cadence, authorization, history, reqs>>

\* fetchGoodNews(subscriber.interests) starts for batch[i].
StartFetch ==
  IF consultedInterests(batch[i].interests) = <<>>
  THEN /\ digests' = Append(digests, [email |-> batch[i].email, count |-> 0])
       /\ pc' = "loop" /\ i' = i + 1 /\ status' = status
  ELSE /\ digests' = digests
       /\ pc' = "fetch" /\ i' = i /\ status' = status

\* The head of the loop over the batch: the end of the cycle, or the next
\* subscriber (whom the handler first tests against the window).
LoopHead ==
  /\ pc = "loop"
  /\ k' = 1
  /\ newsItems' = <<>>
  /\ IF i > Len(batch)
     THEN /\ pc' = "idle"
          /\ i' = i
          /\ status' = IF ep = "handler" THEN 200 ELSE status
          /\ UNCHANGED <<dueLog, digests>>
     ELSE IF ep = "timer"
     THEN StartFetch /\ UNCHANGED dueLog
     ELSE IF timeZoneThrows(batch[i].timezone)
     THEN Raise(catchSite(ep, "timezone")) /\ UNCHANGED <<dueLog, digests>>
     ELSE IF handlerDue(batch[i], now)
     THEN StartFetch /\ dueLog' = dueLog \cup {batch[i].email}
     ELSE /\ pc' = "loop" /\ i' = i + 1 /\ status' = status
          /\ UNCHANGED <<dueLog, digests>>
  /\ UNCHANGED <<subscribers, ep, now, batch, providerCalls, sendCalls,
                 sentCount, storeRead, cadence, authorization, history, reqs>>

\* One pass of fetchGoodNews' loop: the request for interest k and its reply;
\* after the last interest fetchGoodNews returns and the caller sends the
\* digest unless it is empty.
FetchInterest(replies) ==
  /\ pc = "fetch"
  /\ \E reply \in replies :
       LET consulted == consultedInterests(batch[i].interests)
           interest == consulted[k]
           r == fetchInterest(ep, newsItems, interest, reply)
       IN  /\ providerCalls' =
                Append(providerCalls,
                       [email |-> batch[i].email, interest |-> interest,
                        request |-> providerRequest(interest),
                        outcome |-> r.outcome])
           /\ newsItems' = r.items
           /\ IF r.escapes
              THEN Raise(catchSite(ep, "fetchGoodNews")) /\ k' = k /\ digests' = digests
              ELSE IF k < Len(consulted)
              THEN /\ k' = k + 1
                   /\ pc' = "fetch" /\ i' = i /\ status' = status
                   /\ digests' = digests
              ELSE /\ k' = k
                   /\ digests' = Append(digests, [email |-> batch[i].email,
                                                  count |-> Len(r.items)])
                   /\ status' = status
                   /\ IF digestIsEmpty(r.items)
                      THEN pc' = "loop" /\ i' = i + 1
                      ELSE pc' = "send" /\ i' = i
  /\ UNCHANGED <<subscribers, ep, now, batch, dueLog, sendCalls, sentCount,
                 storeRead, cadence, authorization, history, reqs>>

\* resend.emails.send for batch[i]: it resolves, resolves with an error object,
\* or throws. No step of either entry point reads sentOn or sentTwice: with
\* `recorded` they keep the history of the sends across invocations.
SendDigestStep(recorded) ==
  /\ pc = "send"
  /\ \E outcome \in SendOutcomes :
       /\ LET pair == <<batch[i].email, localDay(now, batch[i].timezone)>>
          IN  IF recorded /\ outcome = "ok"
              THEN /\ sentOn' = sentOn \cup {<<pair[1], pair[2], ep>>}
                   /\ sentTwice' = IF alreadySent(pair[1], pair[2])
                                   THEN sentTwice \cup {pair} ELSE sentTwice
              ELSE UNCHANGED history
       /\ sendCalls' = Append(sendCalls, [to |-> batch[i].email,
                                          items |-> Len(newsItems),
                                          outcome |-> outcome])
       /\ IF outcome = "throws"
          THEN Raise(catchSite(ep, "send")) /\ sentCount' = sentCount
          ELSE /\ pc' = "loop" /\ i' = i + 1 /\ status' = status
               /\ sentCount' = IF ep = "handler" THEN sentCount + 1 ELSE sentCount
  /\ UNCHANGED <<subscribers, ep, now, batch, k, newsItems, dueLog,
                 providerCalls, digests, storeRead, cadence, authorization, reqs>>

StoreRead == StoreReadAt(Instants)

SendDigest == SendDigestStep(FALSE)

Init ==
  /\ subscribers \in Tables
  /\ ep = "none"
  /\ pc = "idle"
  /\ now = 0
  /\ batch = <<>>
  /\ i = 1
  /\ k = 1
  /\ newsItems = <<>>
  /\ dueLog = {}
  /\ providerCalls = <<>>
  /\ sendCalls = <<>>
  /\ digests = <<>>
  /\ status = 0
  /\ sentCount = 0
  /\ storeRead = "none"
  /\ tick = 0
  /\ hits = {}
  /\ dupes = {}
  /\ earlyDrift = FALSE
  /\ authorization = noHeader
  /\ sentOn = {}
  /\ sentTwice = {}
  /\ reqs = <<>>

Next ==
  \/ TimerFire
  \/ HandlerRequest
  \/ StoreRead
  \/ LoopHead
  \/ FetchInterest(SchedulerReplies)
  \/ SendDigest

Spec == Init /\ [][Next]_vars

----
\* The scheduling cycle over several invocations of one day, with the sends
\* issued so far kept in sentOn and sentTwice. Every awaited call settles: the
\* event loop resumes an invocation whenever the call it awaits has settled.

HistoryTables ==
  {rows \in Tables : \A n \in 1..Len(rows) : rows[n].timezone = "UTC"}

\* 07:30 and 07:44 (inside the window) and 07:45 (outside) of one UTC day.
HistoryInstants == {450, 464, 465}

\* A request that throws (all of a subscriber's requests throwing leaves the
\* digest empty) and a reply with good articles.
HistoryReplies ==
  {[kind |-> "throws", articles |-> <<>>],
   [kind |-> "articles", articles |-> <<ArtPlain, ArtTrusted, ArtPlain>>]}

InitHistory == Init /\ subscribers \in HistoryTables

Resume ==
  \/ StoreReadAt(HistoryInstants)
  \/ LoopHead
  \/ FetchInterest(HistoryReplies)
  \/ SendDigestStep(TRUE)

NextHistory ==
  \/ TimerFire
  \/ HandlerRequest
  \/ StoreReadAt(HistoryInstants)
  \/ LoopHead
  \/ FetchInterest(HistoryReplies)
  \/ SendDigestStep(TRUE)

SpecHistory == InitHistory /\ [][NextHistory]_vars /\ WF_vars(Resume)

----
\* The cadence: one invocation per quarter hour, each reading the clock d
\* minutes after (d < 0: before) its boundary, restricted to which subscribers
\* it evaluates as due.

ticksPerDay == minutesPerDay \div cronEveryMinutes

\* Late by nothing, by a minute, and by the whole window less a minute.
LateDrifts == {0, 1, windowEndMinute - windowStartMinute - 1}

Drifts == ((0 - MaxEarly)..(0 - 1)) \cup LateDrifts

\* The cadence is followed one subscriber at a time: the test of a row reads
\* no other row.
CadenceTables ==
  {<<>>} \cup {<<sub>> : sub \in SampleSubscribers \cup ZoneSubscribers}

\* The rows an invocation of entry point `copy` evaluates as due at instant t.
dueRows(copy, rows, t) ==
  IF copy = "timer"
  THEN getSubscribersForCurrentHour(rows, t)
  ELSE SelectSeq(rows, LAMBDA sub : IF timeZoneThrows(sub.timezone) THEN FALSE
                                    ELSE handlerDue(sub, t))

CronTick ==
  /\ tick < MaxDays * ticksPerDay
  /\ \E d \in Drifts :
       LET t == cronEveryMinutes * tick + d
           due == dueRows(ep, subscribers, t)
           new == {<<due[n].email, localDay(t, due[n].timezone)>> : n \in 1..Len(due)}
       IN  /\ now' = t
           /\ tick' = tick + 1
           /\ hits' = hits \cup new
           /\ dupes' = dupes \cup (new \cap hits)
           /\ earlyDrift' = (earlyDrift \/ d < 0)
           /\ dueLog' = Emails(due)
  /\ UNCHANGED <<subscribers, ep, pc, batch, i, k, newsItems, providerCalls,
                 sendCalls, digests, status, sentCount, storeRead,
                 authorization, history, reqs>>

InitCadence ==
  /\ subscribers \in CadenceTables
  /\ ep \in {"timer", "handler"}
  /\ pc = "idle"
  /\ now = 0
  /\ batch = <<>>
  /\ i = 1
  /\ k = 1
  /\ newsItems = <<>>
  /\ dueLog = {}
  /\ providerCalls = <<>>
  /\ sendCalls = <<>>
  /\ digests = <<>>
  /\ status = 0
  /\ sentCount = 0
  /\ storeRead = "none"
  /\ tick = 0
  /\ hits = {}
  /\ dupes = {}
  /\ earlyDrift = FALSE
  /\ authorization = noHeader
  /\ sentOn = {}
  /\ sentTwice = {}
  /\ reqs = <<>>

SpecCadence == InitCadence /\ [][CronTick]_vars

----
\* fetchGoodNews alone: one digest build for a due subscriber, over every
\* reply of at most MaxArticles articles.

InitFetch ==
  /\ \E sub \in {r \in SampleSubscribers : r.timezone = "UTC"} :
       /\ subscribers = <<sub>>
       /\ batch = <<sub>>
       /\ dueLog = {sub.email}
  /\ ep \in {"timer", "handler"}
  /\ pc = "fetch"
  /\ now = 450
  /\ i = 1
  /\ k = 1
  /\ newsItems = <<>>
  /\ providerCalls = <<>>
  /\ sendCalls = <<>>
  /\ digests = <<>>
  /\ status = 0
  /\ sentCount = 0
  /\ storeRead = "ok"
  /\ tick = 0
  /\ hits = {}
  /\ dupes = {}
  /\ earlyDrift = FALSE
  /\ authorization = noHeader
  /\ sentOn = {}
  /\ sentTwice = {}
  /\ reqs = <<>>

NextFetch == FetchInterest(AllReplies(MaxArticles))

SpecFetch == InitFetch /\ [][NextFetch]_vars

----
\* Signup: the route POST /api/signup of backend/server.js (copy "express") and
\* the serverless signup handler (copy "vercel"). The rate limiter and CORS in
\* front of the route are not part of the handler. A value of the request body
\* is a record tagged with its JavaScript type; a string is its characters.

undefined == [type |-> "undefined"]

str(chars) == [type |-> "string", chars |-> chars]

array(items) == [type |-> "array", items |-> items]

\* !value, for undefined and for strings.
falsy(value) ==
  value.type = "undefined" \/ (value.type = "string" /\ value.chars = <<>>)

\* \s of the regular expressions, among the characters of the model.
whiteSpace == {" ", "\t", "\n"}

lowerCaseLetters ==
  {"a","b","c","d","e","f","g","h","i","j","k","l","m",
   "n","o","p","q","r","s","t","u","v","w","x","y","z"}

digits == {"0","1","2","3","4","5","6","7","8","9"}

maxEmailLength == 254
maxTags == 10
maxTagLength == 50
maxTimezoneLength == 50

\* /^[^\s@]+@[^\s@]+\.[^\s@]+$/.test(s): one "@" with something before it, no
\* white space, and after the "@" a "." with something on both sides.
emailRegexTest(s) ==
  LET ats == {n \in 1..Len(s) : s[n] = "@"}
  IN  /\ \A n \in 1..Len(s) : s[n] \notin whiteSpace
      /\ Cardinality(ats) = 1
      /\ \E a \in ats :
           /\ a >= 2
           /\ \E d \in (a + 2)..(Len(s) - 1) : s[d] = "."

isValidEmail(email) ==
  emailRegexTest(email.chars) /\ Len(email.chars) <= maxEmailLength

\* A character replace(/[^a-z0-9\s-]/g, '') keeps.
keptChar(c) == c \in lowerCaseLetters \cup digits \cup whiteSpace \cup {"-"}

\* String(i).toLowerCase().replace(/[^a-z0-9\s-]/g, '').slice(0, 50)
sanitizeTag(tag) ==
  slice0(SelectSeq(toLowerCase(tag), LAMBDA c : keptChar(c)), maxTagLength)

\* sanitizeInterests with no filter of the tags left empty.
sanitizeInterestsKeepEmpty(interests) ==
  IF interests.type # "array" THEN <<>>
  ELSE LET first == slice0(interests.items, maxTags)
       IN  [n \in 1..Len(first) |-> sanitizeTag(first[n])]

sanitizeInterests(interests) ==
  IF interests.type # "array" THEN <<>>
  ELSE LET first == slice0(interests.items, maxTags)
       IN  SelectSeq([n \in 1..Len(first) |-> sanitizeTag(first[n])],
                     LAMBDA tag : Len(tag) > 0)

defaultTimezone ==
  <<"A","m","e","r","i","c","a","/","N","e","w","_","Y","o","r","k">>

\* String(timezone || 'America/New_York').slice(0, 50)
cleanTimezoneOf(timezone) ==
  slice0(IF falsy(timezone) THEN defaultTimezone ELSE timezone.chars,
         maxTimezoneLength)

\* The rows .eq('email', email) matches.
rowsFor(rows, email) == SelectSeq(rows, LAMBDA row : row.email = email)

\* The existence check that finds no row.
selectSingleNone(rows, email) == FALSE

\* .select('email').eq('email', email).single(): data is the row when exactly
\* one row matches and null otherwise.
selectSingle(rows, email) == Len(rowsFor(rows, email)) = 1

\* .update({interests, timezone, updated_at}).eq('email', email)
storeUpdate(rows, email, payload) ==
  [n \in 1..Len(rows) |->
     IF rows[n].email = email
     THEN [rows[n] EXCEPT !.interests = payload.interests,
                          !.timezone = payload.timezone,
                          !.updated_at = payload.updated_at]
     ELSE rows[n]]

\* The table with no constraint on email.
uniqueViolationNever(rows, email) == FALSE

\* email TEXT UNIQUE NOT NULL
uniqueViolation(rows, email) == \E n \in 1..Len(rows) : rows[n].email = email

\* .insert([{email, interests, timezone, created_at}]); updated_at DEFAULT NOW()
storeInsert(rows, payload) ==
  Append(rows, [email |-> payload.email,
                interests |-> payload.interests,
                timezone |-> payload.timezone,
                created_at |-> payload.created_at,
                updated_at |-> "now"])

\* server.js awaits sendWelcomeEmail, which catches; the serverless handler
\* awaits resend.emails.send inside its own try.
welcomeThrowReaches500(copy) == copy = "vercel"

idleRequest ==
  [pc |-> "idle",
   input |-> [copy |-> "express", method |-> "POST", email |-> undefined,
              interests |-> undefined, timezone |-> undefined],
   cleanInterests |-> <<>>,
   cleanTimezone |-> <<>>,
   before |-> <<>>,
   calls |-> <<>>,
   mails |-> <<>>,
   status |-> 0,
   message |-> ""]

\* res.status(status).json(...): the request is answered.
Answer(request, code, text) ==
  [request EXCEPT !.pc = "done", !.status = code, !.message = text]

\* The handler up to its first await. `before` keeps the rows the table held
\* for the email when the request arrived.
accept(input, rows) ==
  LET request ==
        [idleRequest EXCEPT
           !.input = input,
           !.before = IF input.email.type = "string"
                      THEN rowsFor(rows, input.email.chars) ELSE <<>>]
  IN  IF input.copy = "vercel" /\ input.method = "OPTIONS"
      THEN Answer(request, 200, "")
      ELSE IF input.copy = "vercel" /\ input.method # "POST"
      THEN Answer(request, 405, "Method not allowed")
      ELSE IF falsy(input.email) \/ ~isValidEmail(input.email)
      THEN Answer(request, 400, "Valid email required")
      ELSE IF Len(sanitizeInterests(input.interests)) = 0
      THEN Answer(request, 400, "At least one interest required")
      ELSE [request EXCEPT !.pc = "select",
                           !.cleanInterests = sanitizeInterests(input.interests),
                           !.cleanTimezone = cleanTimezoneOf(input.timezone)]

scheduler ==
  <<ep, pc, now, batch, i, k, newsItems, dueLog, providerCalls, sendCalls,
    digests, status, sentCount, storeRead>>

\* A request arrives in slot id; with `reuse` the slot of an answered request
\* is taken again.
SignupRequest(id, inputs, reuse) ==
  /\ reqs[id].pc \in (IF reuse THEN {"idle", "done"} ELSE {"idle"})
  /\ \E input \in inputs :
       reqs' = [reqs EXCEPT ![id] = accept(input, subscribers)]
  /\ UNCHANGED <<subscribers, scheduler, cadence, authorization, history>>

\* The existence check: its error is not read, a failed check reads as "no row".
StoreSelect(id) ==
  /\ reqs[id].pc = "select"
  /\ \E outcome \in {"ok", "error"} :
       LET email == reqs[id].input.email.chars
           existing == outcome = "ok" /\ selectSingle(subscribers, email)
       IN  reqs' = [reqs EXCEPT
                      ![id].calls = Append(@, [op |-> "select", outcome |-> outcome]),
                      ![id].pc = IF existing THEN "update" ELSE "insert"]
  /\ UNCHANGED <<subscribers, scheduler, cadence, authorization, history>>

StoreUpdate(id) ==
  /\ reqs[id].pc = "update"
  /\ \E outcome \in {"ok", "error"} :
       LET email == reqs[id].input.email.chars
           payload == [interests |-> reqs[id].cleanInterests,
                       timezone |-> reqs[id].cleanTimezone,
                       updated_at |-> "now"]
           logged == [reqs[id] EXCEPT
                        !.calls = Append(@, [op |-> "update", email |-> email,
                                             payload |-> payload,
                                             outcome |-> outcome])]
       IN  IF outcome = "ok"
           THEN /\ subscribers' = storeUpdate(subscribers, email, payload)
                /\ reqs' = [reqs EXCEPT ![id] =
                              Answer(logged, 200, "Preferences updated successfully!")]
           ELSE /\ subscribers' = subscribers
                /\ reqs' = [reqs EXCEPT ![id] =
                              Answer(logged, 500, "Failed to subscribe. Please try again.")]
  /\ UNCHANGED <<scheduler, cadence, authorization, history>>

StoreInsert(id) ==
  /\ reqs[id].pc = "insert"
  /\ LET email == reqs[id].input.email.chars
         payload == [email |-> email,
                     interests |-> reqs[id].cleanInterests,
                     timezone |-> reqs[id].cleanTimezone,
                     created_at |-> "now"]
     IN  \E outcome \in (IF uniqueViolation(subscribers, email)
                         THEN {"unique"} ELSE {"ok", "error"}) :
           LET logged == [reqs[id] EXCEPT
                            !.calls = Append(@, [op |-> "insert", email |-> email,
                                                 payload |-> payload,
                                                 outcome |-> outcome])]
           IN  IF outcome = "ok"
               THEN /\ subscribers' = storeInsert(subscribers, payload)
                    /\ reqs' = [reqs EXCEPT ![id] = [logged EXCEPT !.pc = "welcome"]]
               ELSE /\ subscribers' = subscribers
                    /\ reqs' = [reqs EXCEPT ![id] =
                                  Answer(logged, 500, "Failed to subscribe. Please try again.")]
  /\ UNCHANGED <<scheduler, cadence, authorization, history>>

\* The welcome email of a new subscriber: the send resolves, resolves with an
\* error object, or throws.
WelcomeSend(id) ==
  /\ reqs[id].pc = "welcome"
  /\ \E outcome \in SendOutcomes :
       LET logged == [reqs[id] EXCEPT
                        !.mails = Append(@, [to |-> reqs[id].input.email.chars,
                                             outcome |-> outcome])]
       IN  reqs' = [reqs EXCEPT ![id] =
                      IF outcome = "throws" /\ welcomeThrowReaches500(logged.input.copy)
                      THEN Answer(logged, 500, "Failed to subscribe. Please try again.")
                      ELSE Answer(logged, 200, "Successfully subscribed!")]
  /\ UNCHANGED <<subscribers, scheduler, cadence, authorization, history>>

\* Inputs of the signup specifications.

chars254 == [n \in 1..254 |-> IF n = 250 THEN "@" ELSE IF n = 252 THEN "." ELSE "a"]

EmailAnn == <<"a","n","n","@","x",".","i","o">>
EmailBob == <<"b","o","b","@","x",".","i","o">>

\* Missing, empty, without "@", with two, without a dot after the "@", with the
\* dot right after the "@", ending in the dot, with a space, with nothing
\* before the "@", of 255 characters; then the accepted ones.
SignupEmails ==
  {undefined,
   str(<<>>),
   str(<<"a","n","n",".","i","o">>),
   str(<<"a","@","b","@","x",".","i","o">>),
   str(<<"a","n","n","@","x">>),
   str(<<"a","n","n","@",".","i","o">>),
   str(<<"a","n","n","@","x",".">>),
   str(<<"a"," ","n","@","x",".","i","o">>),
   str(<<"@","x",".","i","o">>),
   str(<<"a">> \o chars254),
   str(chars254),
   str(EmailAnn),
   str(EmailBob)}

chars51 == [n \in 1..51 |-> IF n = 51 THEN "z" ELSE "a"]

elevenTags == [n \in 1..11 |-> <<"t", IF n = 11 THEN "x" ELSE "0">>]

\* Missing, not an array, empty, only tags that sanitize to nothing; then a tag
\* in upper case, tags with punctuation, a tab inside a tag, a tag of 51
\* characters, eleven tags, and an empty tag among others.
SignupInterests ==
  {undefined,
   str(tech),
   array(<<>>),
   array(<<<<"!","?">>, <<>>>>),
   array(<<<<"T","e","c","h">>>>),
   array(<<<<"S","c","i","-","F","i"," ","2","!">>, <<"_">>, space>>),
   array(<<<<"a","\t","b">>>>),
   array(<<chars51>>),
   array(elevenTags)}

SignupTimezones ==
  {undefined, str(<<>>), str(<<"U","T","C">>), str(chars51)}

BaseInput ==
  [copy |-> "express", method |-> "POST", email |-> str(EmailAnn),
   interests |-> array(<<<<"T","e","c","h">>>>), timezone |-> str(<<"U","T","C">>)]

\* The base request with one of its fields varied (both copies), the requests
\* the serverless handler answers before reading the body, and the requests
\* wrong in two fields.
SignupInputs ==
  LET oneField ==
        {[BaseInput EXCEPT !.email = e] : e \in SignupEmails}
          \cup {[BaseInput EXCEPT !.interests = t] : t \in SignupInterests}
          \cup {[BaseInput EXCEPT !.timezone = z] : z \in SignupTimezones}
          \cup {[BaseInput EXCEPT !.email = undefined, !.interests = t] :
                  t \in {undefined, array(<<>>)}}
  IN  {[input EXCEPT !.copy = c] : input \in oneField, c \in {"express", "vercel"}}
        \cup {[BaseInput EXCEPT !.copy = "vercel", !.method = m, !.email = e] :
                m \in {"OPTIONS", "GET"}, e \in {undefined, str(EmailAnn)}}

RowBob ==
  [email |-> EmailBob, interests |-> <<space>>, timezone |-> <<"U","T","C">>,
   created_at |-> "before", updated_at |-> "before"]

RowAnn ==
  [email |-> EmailAnn, interests |-> <<health, arts>>, timezone |-> defaultTimezone,
   created_at |-> "before", updated_at |-> "before"]

SignupTables == {<<>>, <<RowAnn>>, <<RowBob, RowAnn>>}

\* No scheduler invocation has started.
SchedulerIdle ==
  /\ ep = "none"
  /\ pc = "idle"
  /\ now = 0
  /\ batch = <<>>
  /\ i = 1
  /\ k = 1
  /\ newsItems = <<>>
  /\ dueLog = {}
  /\ providerCalls = <<>>
  /\ sendCalls = <<>>
  /\ digests = <<>>
  /\ status = 0
  /\ sentCount = 0
  /\ storeRead = "none"
  /\ tick = 0
  /\ hits = {}
  /\ dupes = {}
  /\ earlyDrift = FALSE
  /\ authorization = noHeader
  /\ sentOn = {}
  /\ sentTwice = {}

\* Requests one after the other, over all the inputs.
InitSignup ==
  /\ subscribers \in SignupTables
  /\ reqs = [id \in {1} |-> idleRequest]
  /\ SchedulerIdle

NextSignup ==
  \/ SignupRequest(1, SignupInputs, TRUE)
  \/ StoreSelect(1)
  \/ StoreUpdate(1)
  \/ StoreInsert(1)
  \/ WelcomeSend(1)

SpecSignup == InitSignup /\ [][NextSignup]_vars

\* Requests in flight together, all for one email the table does not hold at
\* first.
MaxRequests == 2

RequestIds == 1..MaxRequests

RaceInputs ==
  {[BaseInput EXCEPT !.copy = c, !.interests = t] :
     c \in {"express", "vercel"},
     t \in {array(<<<<"T","e","c","h">>>>), array(<<space>>)}}

RaceTables == {<<>>, <<RowBob>>}

InitRace ==
  /\ subscribers \in RaceTables
  /\ reqs = [id \in RequestIds |-> idleRequest]
  /\ SchedulerIdle

NextRace ==
  \E id \in RequestIds :
    \/ SignupRequest(id, RaceInputs, FALSE)
    \/ StoreSelect(id)
    \/ StoreUpdate(id)
    \/ StoreInsert(id)
    \/ WelcomeSend(id)

SpecRace == InitRace /\ [][NextRace]_vars

----
\* Properties.

Last(seq) == seq[Len(seq)]

Min(a, b) == IF a < b THEN a ELSE b

\* The local time of day, in minutes, by arithmetic on the UTC offset.
localMinuteOfDay(t, tz) == (t + timeZoneOffset[tz]) % minutesPerDay

\* Local hour 7 and local minute in [30, 45), for a valid time zone.
DueByClock(sub, t) ==
  /\ ~timeZoneThrows(sub.timezone)
  /\ LET m == localMinuteOfDay(t, sub.timezone)
     IN  m \div 60 = 7 /\ m % 60 >= 30 /\ m % 60 < 45

\* The invocation in progress has tested row n of the table against the window.
Evaluated(n) ==
  /\ storeRead = "ok"
  /\ pc # "crashed"
  /\ \/ ep = "timer"
     \/ n < i
     \/ n = i /\ pc \in {"fetch", "send"}

\* The invocation read the store and ran its loop to the end.
CycleComplete == pc = "idle" /\ storeRead = "ok" /\ status \in {0, 200}

DigestEmails == {digests[n].email : n \in 1..Len(digests)}

SendEmails == {sendCalls[n].to : n \in 1..Len(sendCalls)}

CallEmails == {providerCalls[n].email : n \in 1..Len(providerCalls)}

\* No exception has left the loop over the batch.
BatchNotAborted == storeRead = "ok" => (pc # "crashed" /\ status # 500)

\* C1: in both entry points a subscriber is evaluated as due exactly when the
\* instant `now`, projected into the subscriber's time zone, has hour 7 and
\* minute m with 30 <= m < 45 (07:30, 07:31, 07:44 due; 07:29, 07:45, 07:46,
\* 06:35, 08:35 not due).
C1_DueIffInWindow ==
  \A n \in 1..Len(subscribers) :
    Evaluated(n) =>
      (subscribers[n].email \in dueLog <=> DueByClock(subscribers[n], now))

\* C1 witness: the handler finished a cycle at 07:44 UTC in which one row was
\* due and another was not.
C1_Witness ==
  /\ ep = "handler"
  /\ CycleComplete
  /\ now = 464
  /\ Len(subscribers) = 2
  /\ Cardinality(dueLog) = 1

\* The windows of local days 0..MaxDays that have fully passed: the
\* invocations of the boundary at the window's start and of the next boundary
\* have both run.
WindowPassed(sub, day) ==
  LET w == day * 1440 + 450 - timeZoneOffset[sub.timezone]
  IN  w >= 0 /\ tick >= 1 /\ 15 * (tick - 1) >= w + 15

\* Every subscriber with a valid time zone is due in exactly one invocation of
\* each local day whose window has passed.
ExactlyOncePerDay ==
  /\ dupes = {}
  /\ \A n \in 1..Len(subscribers) :
       ~timeZoneThrows(subscribers[n].timezone) =>
         \A day \in 0..MaxDays :
           WindowPassed(subscribers[n], day) =>
             <<subscribers[n].email, day>> \in hits

\* C2 as stated: exactly one due evaluation per subscriber and local day, also
\* when invocations read the clock early or late.
C2_ExactlyOnceUnderAnyDrift == ExactlyOncePerDay

\* C2 as amended: exactly one due evaluation per subscriber and local day when
\* every invocation reads the clock at its quarter-hour boundary or less than
\* 15 minutes after it.
C2_ExactlyOnceWhenNeverEarly == ~earlyDrift => ExactlyOncePerDay

\* C2 witness: two local days of one subscriber, each with its one due
\* evaluation, the latest invocation 14 minutes late.
C2_Witness ==
  /\ ~earlyDrift
  /\ now % 15 = 14
  /\ \E n \in 1..Len(subscribers) :
       /\ <<subscribers[n].email, 0>> \in hits
       /\ <<subscribers[n].email, 1>> \in hits
       /\ WindowPassed(subscribers[n], 1)

\* A text holds one of the keywords.
ContainsAny(text, keywords) == \E kw \in Range(keywords) : includes(text, kw)

\* What C3 asks of an emitted candidate.
Emittable(title, description, source) ==
  /\ title # <<>>
  /\ description # <<>>
  /\ ContainsAny(toLowerCase(title \o <<" ">> \o description), positiveKeywords)
  /\ ~ContainsAny(toLowerCase(title \o <<" ">> \o description), excludeKeywords)
  /\ ~ContainsAny(toLowerCase(source), excludeKeywords)

EmittableTable ==
  [a \in ArticlePool |-> Emittable(a.title, a.description, sourceName(a))]

\* The item was made from a candidate of the pool that C3 allows.
ItemEmittable(item) ==
  \E a \in ArticlePool :
    /\ a.url = item.url
    /\ a.title = item.title
    /\ a.description = item.description
    /\ sourceName(a) = item.source
    /\ EmittableTable[a]

\* C3: every Digest Item comes from a candidate with a title and a
\* description, a positive keyword in its lowercased text, and no exclusion
\* keyword in that text or in its lowercased source name.
C3_OnlyGoodCandidatesEmitted ==
  \A n \in 1..Len(newsItems) : ItemEmittable(newsItems[n])

\* C3 witness: a digest build ended with items, one reply of articles having
\* contributed none.
C3_Witness ==
  /\ pc = "send"
  /\ Len(newsItems) > 0
  /\ \E n \in 1..Len(providerCalls) :
       /\ providerCalls[n].outcome = "articles"
       /\ \A m \in 1..Len(newsItems) :
            newsItems[m].category # providerCalls[n].interest

TrustedName(name) == ContainsAny(toLowerCase(name), trustedSources)

\* C4: among the items of one interest, no item of a non-trusted source comes
\* before an item of a trusted source, in either entry point.
C4_TrustedFirstInBothCopies ==
  \A p, q \in 1..Len(newsItems) :
    (p < q /\ newsItems[p].category = newsItems[q].category
       /\ TrustedName(newsItems[q].source))
      => TrustedName(newsItems[p].source)

\* Occurrences of x in a sequence.
Count(seq, x) == Cardinality({n \in 1..Len(seq) : seq[n] = x})

\* C5: only the first 3 interests are sent to the provider, in order; each
\* kept item carries a consulted interest as its category, at most 2 per
\* consulted interest, so at most 6 in all.
C5_ThreeInterestsTwoItems ==
  LET interests == batch[i].interests
      first3 == SubSeq(interests, 1, Min(3, Len(interests)))
  IN  pc \in {"fetch", "send"} =>
        /\ Len(providerCalls) <= Len(first3)
        /\ \A n \in 1..Len(providerCalls) :
             providerCalls[n].interest = interests[n]
        /\ Len(newsItems) <= 6
        /\ \A n \in 1..Len(newsItems) :
             /\ newsItems[n].category \in Range(first3)
             /\ Cardinality({m \in 1..Len(newsItems) :
                               newsItems[m].category = newsItems[n].category})
                  <= 2 * Count(first3, newsItems[n].category)

\* C5 witness: a full digest of 6 items for a subscriber with 4 interests.
C5_Witness ==
  /\ pc = "send"
  /\ Len(batch[i].interests) = 4
  /\ Len(providerCalls) = 3
  /\ Len(newsItems) = 6

\* C6: an empty digest is never sent, and the cycle goes on to the subscribers
\* after it.
C6_EmptyDigestNotSent ==
  /\ \A n \in 1..Len(sendCalls) : sendCalls[n].items > 0
  /\ \A n \in 1..Len(digests) :
       digests[n].count = 0 => digests[n].email \notin SendEmails
  /\ BatchNotAborted
  /\ CycleComplete => dueLog \subseteq DigestEmails

\* C6 witness: a finished cycle whose first due subscriber had an empty digest
\* and whose second was sent one.
C6_Witness ==
  /\ CycleComplete
  /\ Len(digests) = 2
  /\ digests[1].count = 0
  /\ digests[1].email \notin SendEmails
  /\ digests[2].email \in SendEmails

\* C7: a failed send does not stop the cycle: at its end every due subscriber
\* has had a digest built and, unless it was empty, a send attempted.
C7_SendFailureDoesNotBlock ==
  /\ BatchNotAborted
  /\ CycleComplete =>
       \A n \in 1..Len(subscribers) :
         DueByClock(subscribers[n], now) =>
           \E d \in 1..Len(digests) :
             /\ digests[d].email = subscribers[n].email
             /\ digests[d].count > 0 => subscribers[n].email \in SendEmails

\* C7 witness: a finished cycle in which a send threw and a later send was
\* issued.
C7_Witness ==
  /\ CycleComplete
  /\ Len(sendCalls) = 2
  /\ sendCalls[1].outcome = "throws"
  /\ sendCalls[1].to # sendCalls[2].to

\* C8: a provider call that fails (the request or the parsing of its reply
\* throws) adds no item and removes none, the next consulted interest is
\* fetched, and after the last one the digest built so far goes to the caller.
C8_FetchFailureIsLocal ==
  [][(/\ pc = "fetch"
      /\ Len(providerCalls') = Len(providerCalls) + 1
      /\ Last(providerCalls').outcome \in {"throws", "mapThrows"})
     => /\ newsItems' = newsItems
        /\ status' = status
        /\ IF k < Min(3, Len(batch[i].interests))
           THEN pc' = "fetch" /\ k' = k + 1 /\ i' = i
           ELSE IF newsItems = <<>>
           THEN pc' = "loop" /\ i' = i + 1
           ELSE pc' = "send" /\ i' = i]_vars

\* C8 witness: of three calls for one subscriber the second threw, and the
\* digest holds items of the first and of the third interest.
C8_Witness ==
  /\ pc = "send"
  /\ Len(providerCalls) >= 3
  /\ LET n == Len(providerCalls)
     IN  /\ providerCalls[n - 2].email = batch[i].email
         /\ providerCalls[n - 2].outcome = "articles"
         /\ providerCalls[n - 1].outcome = "throws"
         /\ providerCalls[n].outcome = "articles"
         /\ \E m \in 1..Len(newsItems) :
              newsItems[m].category = providerCalls[n - 2].interest
         /\ \E m \in 1..Len(newsItems) :
              newsItems[m].category = providerCalls[n].interest

\* C9: a subscriber with an invalid time zone is not due, gets no provider
\* call and no send, raises nothing to the caller, and the other subscribers
\* are still evaluated and, if due, processed.
C9_InvalidTimezoneNotDue ==
  /\ \A n \in 1..Len(subscribers) :
       timeZoneThrows(subscribers[n].timezone) =>
         /\ subscribers[n].email \notin dueLog
         /\ subscribers[n].email \notin CallEmails
         /\ subscribers[n].email \notin SendEmails
  /\ BatchNotAborted
  /\ CycleComplete =>
       \A n \in 1..Len(subscribers) :
         DueByClock(subscribers[n], now) =>
           subscribers[n].email \in DigestEmails

\* C9 witness: a finished cycle over a table whose first row has an invalid
\* time zone and whose second row was sent a digest.
C9_Witness ==
  /\ CycleComplete
  /\ Len(subscribers) = 2
  /\ timeZoneThrows(subscribers[1].timezone)
  /\ subscribers[2].email \in SendEmails

\* C10: after a failed store read the cycle has no subscribers: no provider
\* call, no send, the process is up and the next cycle can start.
C10_StoreReadFailureEmptyCycle ==
  storeRead = "error" =>
    /\ batch = <<>>
    /\ dueLog = {}
    /\ providerCalls = <<>>
    /\ sendCalls = <<>>
    /\ pc \in {"loop", "idle"}
    /\ pc = "loop" => (ep = "timer" /\ i > Len(batch))
    /\ pc = "idle" => ENABLED TimerFire /\ ENABLED HandlerRequest

\* C10 witness: the cycle of a failed store read has ended.
C10_Witness ==
  /\ storeRead = "error"
  /\ pc = "idle"
  /\ Len(subscribers) > 0

\* C15: a request to the trigger handler whose Authorization header is not
\* 'Bearer ' followed by the configured secret is answered 401, and the
\* invocation reads no store, calls no provider and sends no email.
C15_UnauthorizedAnswered401 ==
  (ep = "handler" /\ ~(authorization.present /\ authorization.value = "Bearer s3cret")) =>
    /\ status = 401
    /\ pc = "idle"
    /\ storeRead = "none"
    /\ batch = <<>>
    /\ providerCalls = <<>>
    /\ sendCalls = <<>>
    /\ sentCount = 0

\* C15 witness: a request carrying the Bearer scheme and another secret was
\* answered 401 over a table that has rows.
C15_Witness ==
  /\ ep = "handler"
  /\ authorization.present
  /\ authorization.value = "Bearer wrong"
  /\ status = 401
  /\ Len(subscribers) > 0

\* Position in store-read order of the row holding this email.
RowOf(email) == CHOOSE n \in 1..Len(subscribers) : subscribers[n].email = email

\* Each email at most once, in store-read order.
InStoreOrder(emails) ==
  \A a, b \in 1..Len(emails) : a < b => RowOf(emails[a]) < RowOf(emails[b])

InterestsCalledFor(email) ==
  LET calls == SelectSeq(providerCalls, LAMBDA c : c.email = email)
  IN  [n \in 1..Len(calls) |-> calls[n].interest]

IsPrefix(s, t) == Len(s) <= Len(t) /\ \A n \in 1..Len(s) : s[n] = t[n]

\* One pass over the batch: no subscriber, interest or send is taken twice.
NoRetry ==
  /\ InStoreOrder([n \in 1..Len(digests) |-> digests[n].email])
  /\ InStoreOrder([n \in 1..Len(sendCalls) |-> sendCalls[n].to])
  /\ \A a, b \in 1..Len(providerCalls) :
       a < b => RowOf(providerCalls[a].email) <= RowOf(providerCalls[b].email)
  /\ \A n \in 1..Len(subscribers) :
       IsPrefix(InterestsCalledFor(subscribers[n].email),
                SubSeq(subscribers[n].interests, 1,
                       Min(3, Len(subscribers[n].interests))))
  /\ SendEmails \subseteq DigestEmails

\* The store is read once per invocation: its outcome stands until the next
\* invocation starts.
StoreReadOnce ==
  (storeRead # "none" /\ storeRead' # storeRead) => (pc = "idle" /\ storeRead' = "none")

\* C16: an invocation takes each subscriber once in store-read order, issues at
\* most one provider call per consulted interest and at most one send per
\* subscriber whatever their outcomes, reads the store once, and always ends.
C16_NoRetryRunsToCompletion ==
  /\ []NoRetry
  /\ [][StoreReadOnce]_vars
  /\ (pc # "idle") ~> (pc = "idle")

\* C16 witness: an invocation over two rows has ended after a provider call
\* that threw and a send that threw for the first row, and the second row was
\* processed after it.
C16_Witness ==
  /\ pc = "idle"
  /\ Len(digests) = 2
  /\ \E n \in 1..Len(providerCalls) :
       providerCalls[n].email = subscribers[1].email /\ providerCalls[n].outcome = "throws"
  /\ \E n \in 1..Len(sendCalls) :
       sendCalls[n].to = subscribers[1].email /\ sendCalls[n].outcome = "throws"
  /\ Len(InterestsCalledFor(subscribers[1].email)) = 3

\* The emails of the rows whose local time at `now` is inside the window.
DueEmails ==
  {subscribers[n].email : n \in {m \in 1..Len(subscribers) : DueByClock(subscribers[m], now)}}

NonEmptyDigestEmails ==
  {digests[n].email : n \in {m \in 1..Len(digests) : digests[m].count > 0}}

SentOkEmails ==
  {sendCalls[n].to : n \in {m \in 1..Len(sendCalls) : sendCalls[m].outcome = "ok"}}

OtherEntryPoint == IF ep = "timer" THEN "handler" ELSE "timer"

\* C13: whatever digests earlier invocations sent, an invocation issues a send
\* for exactly the subscribers inside the window at its `now` whose digest is
\* non-empty; hence a subscriber the other entry point already sent a digest to
\* on that day, and whom this invocation's send reaches, has been sent two.
C13_SendIgnoresEarlierSends ==
  /\ pc = "send" => (DueByClock(batch[i], now) /\ Len(newsItems) > 0)
  /\ CycleComplete =>
       /\ DigestEmails = DueEmails
       /\ SendEmails = NonEmptyDigestEmails
       /\ \A n \in 1..Len(subscribers) :
            LET sub == subscribers[n]
                day == localDay(now, sub.timezone)
            IN  (sub.email \in SentOkEmails /\ <<sub.email, day, OtherEntryPoint>> \in sentOn)
                  => <<sub.email, day>> \in sentTwice

\* C13 witness: the handler's invocation has ended having sent a digest to a
\* subscriber the timer had sent one to on the same day.
C13_Witness ==
  /\ CycleComplete
  /\ ep = "handler"
  /\ \E n \in 1..Len(subscribers) :
       /\ subscribers[n].email \in SentOkEmails
       /\ <<subscribers[n].email, localDay(now, subscribers[n].timezone), "timer">> \in sentOn
       /\ <<subscribers[n].email, localDay(now, subscribers[n].timezone)>> \in sentTwice

\* The tags expected of each interests value of SignupInterests.
ExpectedTags(interests) ==
  CASE interests = array(<<<<"T","e","c","h">>>>) -> <<tech>>
    [] interests = array(<<space>>) -> <<space>>
    [] interests = array(<<<<"S","c","i","-","F","i"," ","2","!">>, <<"_">>, space>>) ->
         <<<<"s","c","i","-","f","i"," ","2">>, space>>
    [] interests = array(<<<<"a","\t","b">>>>) -> <<<<"a","\t","b">>>>
    [] interests = array(<<chars51>>) -> <<[n \in 1..50 |-> "a"]>>
    [] interests = array(elevenTags) -> [n \in 1..10 |-> <<"t","0">>]
    [] OTHER -> <<>>

\* The time zone expected of each timezone value of SignupTimezones.
ExpectedTimezone(timezone) ==
  CASE timezone = str(<<"U","T","C">>) -> <<"U","T","C">>
    [] timezone = str(chars51) -> [n \in 1..50 |-> "a"]
    [] OTHER -> defaultTimezone

\* A POST whose email is well formed and whose interests leave a tag.
ValidSignup(input) ==
  /\ input.method = "POST"
  /\ input.email \in {str(EmailAnn), str(EmailBob), str(chars254)}
  /\ ExpectedTags(input.interests) # <<>>

Ops(request) == [n \in 1..Len(request.calls) |-> request.calls[n].op]

ExpectedUpdate(input) ==
  [interests |-> ExpectedTags(input.interests),
   timezone |-> ExpectedTimezone(input.timezone),
   updated_at |-> "now"]

Failed500(request) ==
  request.status = 500 /\ request.message = "Failed to subscribe. Please try again."

\* The original wording of C11: a valid signup with a stored email is always
\* answered by an update, one with a new email always inserts one row.
C11_RepeatSignupAlwaysUpdates ==
  LET request == reqs[1]
      input == request.input
      rows == rowsFor(subscribers, input.email.chars)
  IN  (request.pc = "done" /\ ValidSignup(input)) =>
        IF request.before # <<>>
        THEN /\ Ops(request) = <<"select", "update">>
             /\ request.calls[2].email = input.email.chars
             /\ request.calls[2].payload = ExpectedUpdate(input)
             /\ request.message = "Preferences updated successfully!"
             /\ request.mails = <<>>
             /\ Len(rows) = 1
        ELSE /\ Ops(request) = <<"select", "insert">>
             /\ Len(rows) = 1

\* C11 (amended): a valid signup with a stored email whose existence check and
\* update the store answers makes the store receive one update of interests,
\* timezone and updated_at and no insert, answers 'Preferences updated
\* successfully!', sends no welcome email and leaves the one row updated in
\* place; when the update fails it answers 500 and the row is as before; when
\* the existence check fails the handler attempts an insert, the unique
\* constraint rejects it, and it answers 500 with the row as before. A valid
\* signup with a new email inserts one row when the store accepts the insert
\* and none, answering 500, when it does not.
C11_RepeatSignupUpdatesWhenStoreAnswers ==
  LET request == reqs[1]
      input == request.input
      rows == rowsFor(subscribers, input.email.chars)
      old == request.before[1]
  IN  (request.pc = "done" /\ ValidSignup(input)) =>
        IF request.before # <<>>
        THEN /\ request.mails = <<>>
             /\ request.message # "Successfully subscribed!"
             /\ Len(rows) = 1
             /\ IF request.calls[1].outcome = "ok"
                THEN /\ Ops(request) = <<"select", "update">>
                     /\ request.calls[2].email = input.email.chars
                     /\ request.calls[2].payload = ExpectedUpdate(input)
                     /\ IF request.calls[2].outcome = "ok"
                        THEN /\ request.status = 200
                             /\ request.message = "Preferences updated successfully!"
                             /\ rows[1] = [old EXCEPT
                                  !.interests = ExpectedTags(input.interests),
                                  !.timezone = ExpectedTimezone(input.timezone),
                                  !.updated_at = "now"]
                        ELSE Failed500(request) /\ rows[1] = old
                ELSE /\ Ops(request) = <<"select", "insert">>
                     /\ request.calls[2].outcome = "unique"
                     /\ Failed500(request)
                     /\ rows[1] = old
        ELSE /\ Ops(request) = <<"select", "insert">>
             /\ IF request.calls[2].outcome = "ok"
                THEN /\ Len(rows) = 1
                     /\ rows[1].email = input.email.chars
                     /\ rows[1].interests = ExpectedTags(input.interests)
                     /\ rows[1].timezone = ExpectedTimezone(input.timezone)
                     /\ Len(request.mails) = 1
                ELSE /\ rows = <<>>
                     /\ Failed500(request)
                     /\ request.mails = <<>>

\* C11 witness: a signup for the stored email of the second row was answered
\* 'Preferences updated successfully!' and the row holds the new interests.
C11_Witness ==
  /\ reqs[1].pc = "done"
  /\ reqs[1].before = <<RowAnn>>
  /\ reqs[1].message = "Preferences updated successfully!"
  /\ Len(subscribers) = 2
  /\ subscribers[2].email = EmailAnn
  /\ subscribers[2].interests = <<tech>>
  /\ subscribers[2].timezone = <<"U","T","C">>
  /\ subscribers[2].updated_at = "now"

\* A POST whose email is missing or malformed, or whose interests leave no tag.
EmailRefused(input) ==
  input.email \notin {str(EmailAnn), str(EmailBob), str(chars254)}

InvalidSignup(input) ==
  input.method = "POST" /\ (EmailRefused(input) \/ ExpectedTags(input.interests) = <<>>)

RejectedWith400(request) ==
  /\ request.pc = "done"
  /\ request.status = 400
  /\ request.message = IF EmailRefused(request.input)
                       THEN "Valid email required"
                       ELSE "At least one interest required"
  /\ request.calls = <<>>
  /\ request.mails = <<>>

\* The arrival of an invalid request answers it and leaves the table as it was.
RejectionStep ==
  (reqs' # reqs /\ reqs[1].pc \in {"idle", "done"} /\ InvalidSignup(reqs'[1].input)) =>
    (RejectedWith400(reqs'[1]) /\ subscribers' = subscribers)

\* C12: a signup whose email is missing or malformed, or whose interests are
\* empty after sanitization, is answered 400 before any store call or email
\* send, and the subscribers table is unchanged.
C12_InvalidSignupRejectedWithoutEffect ==
  /\ []((reqs[1].pc # "idle" /\ InvalidSignup(reqs[1].input)) => RejectedWith400(reqs[1]))
  /\ [][RejectionStep]_vars

\* C12 witness: over a table of two rows a request with a good email whose two
\* tags sanitize to nothing was answered 400.
C12_Witness ==
  /\ reqs[1].pc = "done"
  /\ reqs[1].status = 400
  /\ reqs[1].input.email = str(EmailAnn)
  /\ reqs[1].input.interests = array(<<<<"!","?">>, <<>>>>)
  /\ reqs[1].message = "At least one interest required"
  /\ Len(subscribers) = 2

\* The rows a signup handler wrote: inserted or updated by a request.
WrittenRows ==
  {n \in 1..Len(subscribers) :
     subscribers[n].created_at = "now" \/ subscribers[n].updated_at = "now"}

\* C14: every row written by the signup handlers holds 1 to 10 tags, each of 1
\* to 50 characters, each character a lowercase letter, a digit, the space
\* character or the hyphen.
C14_TagsLowercaseAlnumSpaceHyphen ==
  \A n \in WrittenRows :
    LET tags == subscribers[n].interests
    IN  /\ Len(tags) >= 1
        /\ Len(tags) <= 10
        /\ \A t \in 1..Len(tags) :
             /\ Len(tags[t]) >= 1
             /\ Len(tags[t]) <= 50
             /\ \A c \in 1..Len(tags[t]) :
                  tags[t][c] \in lowerCaseLetters \cup digits \cup {" ", "-"}

AllAnswered == \A id \in RequestIds : reqs[id].pc = "done"

\* The rows of the email every request of the race carries.
RaceRows == rowsFor(subscribers, EmailAnn)

Subscribed == {id \in RequestIds : reqs[id].message = "Successfully subscribed!"}

Welcomed == {id \in RequestIds : reqs[id].mails # <<>>}

InsertOutcomes(id) ==
  {reqs[id].calls[n].outcome :
     n \in {m \in 1..Len(reqs[id].calls) : reqs[id].calls[m].op = "insert"}}

\* The requests whose insert the unique constraint rejected.
Losers == {id \in RequestIds : "unique" \in InsertOutcomes(id)}

AtMostOneOfEach ==
  /\ Len(RaceRows) <= 1
  /\ Cardinality(Subscribed) <= 1
  /\ Cardinality(Welcomed) <= 1
  /\ \A id \in RequestIds : Len(reqs[id].mails) <= 1
  /\ \A id \in Losers : Failed500(reqs[id]) /\ reqs[id].mails = <<>>

\* The original wording of C17: once every request is answered the table holds
\* exactly one row for the email.
C17_RaceAlwaysLeavesOneRow ==
  /\ AtMostOneOfEach
  /\ AllAnswered => Len(RaceRows) = 1

\* A rejected or failed insert answers 500 and leaves the table as it was.
FailedInsertStep ==
  \A id \in RequestIds :
    (reqs[id].pc = "insert" /\ reqs'[id].pc = "done") =>
      (Failed500(reqs'[id]) /\ subscribers' = subscribers)

\* C17 (amended): in every interleaving of requests carrying one email the
\* table did not hold, the table never holds more than one row for it, at most
\* one request answers 'Successfully subscribed!' and at most one welcome email
\* is sent; a request whose insert the unique constraint rejects answers 500
\* and changes nothing; once all are answered the table holds the one row if
\* the store accepted an insert and no row if every insert failed at the store.
C17_RaceLeavesAtMostOneRow ==
  /\ [](/\ AtMostOneOfEach
        /\ AllAnswered =>
             (Len(RaceRows) = 1 <=> \E id \in RequestIds : "ok" \in InsertOutcomes(id)))
  /\ [][FailedInsertStep]_vars

\* C17 witness: two requests arrived before the email was stored and both
\* passed the existence check; the insert of one was accepted, the insert of
\* the other was rejected by the unique constraint and answered 500.
C17_Witness ==
  /\ Len(RaceRows) = 1
  /\ \E won, lost \in RequestIds :
       /\ won # lost
       /\ reqs[won].pc = "done" /\ reqs[lost].pc = "done"
       /\ reqs[won].before = <<>> /\ reqs[lost].before = <<>>
       /\ Ops(reqs[won]) = <<"select", "insert">>
       /\ Ops(reqs[lost]) = <<"select", "insert">>
       /\ reqs[lost].calls[1].outcome = "ok"
       /\ reqs[won].message = "Successfully subscribed!"
       /\ lost \in Losers
       /\ reqs[lost].status = 500

====
